---------------------------- MODULE Spec2Model ----------------------------
(***************************************************************************)
(* A model of src/src/index.js: the page controller of the in-browser      *)
(* issue generator.  The module state (engine, selectedModel), the DOM     *)
(* widgets the handlers write (output area, stats line, issue preview,     *)
(* schema editor) and the local variables of every run of the async        *)
(* "generate" click handler are the state; each handler, and each          *)
(* resumption of the click handler after an await, is one action.          *)
(*                                                                         *)
(* Text is a sequence of JSON tokens, a string is a sequence of            *)
(* characters.  JSON.parse, hljs.highlight, toUpperCase, charAt, toFixed   *)
(* and Array.join are computed on these representations.                   *)
(***************************************************************************)
EXTENDS Integers, Sequences, FiniteSets

(***************************************************************************)
(* Bounds of the model.                                                    *)
(***************************************************************************)
\* number of runs of the click handler (they may overlap)
MaxInv == 2
\* number of chunks one stream delivers before it must end
MaxChunks == 2
\* number of change events of the model dropdown
MaxSelect == 3
\* number of entries of a model catalog
MaxCatalog == 3

(***************************************************************************)
(* JSON text                                                               *)
(***************************************************************************)
Punct(c) == [t |-> c, v |-> <<>>]
Str(chars) == [t |-> "str", v |-> chars]
Num(chars) == [t |-> "num", v |-> chars]
Null == [t |-> "null", v |-> <<>>]
\* a bare word, which no JSON value starts with
Bare(chars) == [t |-> "bare", v |-> chars]

RECURSIVE SkipValue(_, _), SkipElements(_, _), SkipMembers(_, _)
\* The position after the JSON value that starts at toks[p]; 0 when no value
\* starts there.
SkipValue(toks, p) ==
  IF p = 0 \/ p > Len(toks) THEN 0
  ELSE CASE toks[p].t \in {"str", "num", "null"} -> p + 1
         [] toks[p].t = "[" ->
              IF p + 1 <= Len(toks) /\ toks[p + 1].t = "]" THEN p + 2
              ELSE SkipElements(toks, p + 1)
         [] toks[p].t = "{" ->
              IF p + 1 <= Len(toks) /\ toks[p + 1].t = "}" THEN p + 2
              ELSE SkipMembers(toks, p + 1)
         [] OTHER -> 0

SkipElements(toks, p) ==
  LET q == SkipValue(toks, p) IN
  IF q = 0 \/ q > Len(toks) THEN 0
  ELSE IF toks[q].t = "]" THEN q + 1
  ELSE IF toks[q].t = "," THEN SkipElements(toks, q + 1)
  ELSE 0

SkipMembers(toks, p) ==
  IF p + 1 > Len(toks) \/ toks[p].t # "str" \/ toks[p + 1].t # ":" THEN 0
  ELSE LET q == SkipValue(toks, p + 2) IN
       IF q = 0 \/ q > Len(toks) THEN 0
       ELSE IF toks[q].t = "}" THEN q + 1
       ELSE IF toks[q].t = "," THEN SkipMembers(toks, q + 1)
       ELSE 0

\* JSON.parse(text) does not throw
JSONValid(toks) == Len(toks) > 0 /\ SkipValue(toks, 1) = Len(toks) + 1

\* A parsed value: k is its JavaScript type, s the characters of a string (or
\* the lexeme of a number), a the elements of an array.
Undefined == [k |-> "undefined", s |-> <<>>, a |-> <<>>]

Element(toks, p) ==
  [k |-> IF toks[p].t \in {"str", "num", "null"} THEN toks[p].t ELSE "obj",
   s |-> toks[p].v]

RECURSIVE Elements(_, _)
Elements(toks, p) ==
  LET q == SkipValue(toks, p) IN
  <<Element(toks, p)>> \o
    (IF toks[q].t = "," THEN Elements(toks, q + 1) ELSE <<>>)

ValueAt(toks, p) ==
  CASE toks[p].t \in {"str", "num", "null"} ->
         [k |-> toks[p].t, s |-> toks[p].v, a |-> <<>>]
    [] toks[p].t = "[" ->
         [k |-> "arr", s |-> <<>>,
          a |-> IF toks[p + 1].t = "]" THEN <<>> ELSE Elements(toks, p + 1)]
    [] OTHER -> [k |-> "obj", s |-> <<>>, a |-> <<>>]

RECURSIVE Lookup(_, _, _, _)
\* the value of the last member named key, from the member at p on
Lookup(toks, p, key, found) ==
  LET q == SkipValue(toks, p + 2)
      now == IF toks[p].v = key THEN ValueAt(toks, p + 2) ELSE found
  IN IF toks[q].t = "," THEN Lookup(toks, q + 1, key, now) ELSE now

\* value.key of the parsed text: undefined when the value is no object or has
\* no such member
Prop(toks, key) ==
  IF toks[1].t = "{" /\ toks[2].t # "}" THEN Lookup(toks, 2, key, Undefined)
  ELSE Undefined

NoData ==
  [ok |-> FALSE, isNull |-> FALSE, title |-> Undefined, priority |-> Undefined,
   estimated_time |-> Undefined, labels |-> Undefined,
   description |-> Undefined, assignees |-> Undefined]

\* JSON.parse(text), as far as updateIssuePreview reads the result
JSONParse(toks) ==
  IF ~JSONValid(toks) THEN NoData
  ELSE [ok |-> TRUE, isNull |-> toks[1].t = "null",
        title |-> Prop(toks, <<"title">>),
        priority |-> Prop(toks, <<"priority">>),
        estimated_time |-> Prop(toks, <<"estimated_time">>),
        labels |-> Prop(toks, <<"labels">>),
        description |-> Prop(toks, <<"description">>),
        assignees |-> Prop(toks, <<"assignees">>)]


(***************************************************************************)
(* Strings                                                                 *)
(***************************************************************************)
LowerCase ==
  <<"a", "b", "c", "d", "e", "f", "g", "h", "i", "j", "k", "l", "m",
    "n", "o", "p", "q", "r", "s", "t", "u", "v", "w", "x", "y", "z">>
UpperCase ==
  <<"A", "B", "C", "D", "E", "F", "G", "H", "I", "J", "K", "L", "M",
    "N", "O", "P", "Q", "R", "S", "T", "U", "V", "W", "X", "Y", "Z">>

UpperChar(c) ==
  IF \E n \in 1..Len(LowerCase) : LowerCase[n] = c
  THEN UpperCase[CHOOSE n \in 1..Len(LowerCase) : LowerCase[n] = c]
  ELSE c

\* String.prototype.toUpperCase
toUpperCase(s) == [n \in 1..Len(s) |-> UpperChar(s[n])]

\* String.prototype.charAt(0): the empty string when there is no character
charAt0(s) == IF Len(s) = 0 THEN <<>> ELSE <<s[1]>>

RECURSIVE JoinStrings(_, _)
\* Array.prototype.join on an array of strings
JoinStrings(parts, sep) ==
  IF Len(parts) = 0 THEN <<>>
  ELSE IF Len(parts) = 1 THEN parts[1]
  ELSE parts[1] \o sep \o JoinStrings(Tail(parts), sep)

\* String(v) of an array element
ElementString(e) ==
  CASE e.k \in {"str", "num"} -> e.s
    [] e.k = "null" -> <<"null">>
    [] OTHER -> <<"[object Object]">>

\* String(v), as a template literal or a textContent assignment converts v;
\* an array joins its elements with ",", null and undefined elements empty
StringOf(v) ==
  CASE v.k \in {"str", "num"} -> v.s
    [] v.k = "null" -> <<"null">>
    [] v.k = "undefined" -> <<"undefined">>
    [] v.k = "arr" ->
         JoinStrings([n \in 1..Len(v.a) |->
                        IF v.a[n].k = "null" THEN <<>> ELSE ElementString(v.a[n])],
                     <<",">>)
    [] OTHER -> <<"[object Object]">>

\* what node.textContent = v stores: null and undefined store the empty string
TextContent(v) == IF v.k \in {"null", "undefined"} THEN <<>> ELSE StringOf(v)

(***************************************************************************)
(* The issue preview (updateIssuePreview)                                  *)
(***************************************************************************)
PriorityClassPrefix ==
  <<"inline-flex items-center px-2.5 py-0.5 rounded-full text-xs font-medium priority-">>

Child(tag, className, textContent) ==
  [tag |-> tag, className |-> className, textContent |-> textContent]

\* the chip appended for one element of labels
LabelChip(label) ==
  Child("span", <<"issue-label label-">> \o ElementString(label),
        IF label.k = "null" THEN <<>> ELSE ElementString(label))

\* an avatar that shows the first character as it was typed
AssigneeAvatarAsTyped(assignee) ==
  Child("div", <<"assignee-avatar">>, charAt0(assignee.s))

\* the avatar appended for one element of assignees
AssigneeAvatar(assignee) ==
  Child("div", <<"assignee-avatar">>, toUpperCase(charAt0(assignee.s)))

NoAssignees == Child("span", <<"text-sm text-gray-500">>, <<"No assignees">>)

\* the first element of a that has no charAt method; Len(a) + 1 when all have
FirstNonString(a) ==
  IF \E n \in 1..Len(a) : a[n].k # "str"
  THEN CHOOSE n \in 1..Len(a) :
         a[n].k # "str" /\ \A m \in 1..(n - 1) : a[m].k = "str"
  ELSE Len(a) + 1

\* the children appended to the assignees container by the forEach, which
\* stops at the first element that throws
appendAvatars(a) ==
  [n \in 1..(FirstNonString(a) - 1) |-> AssigneeAvatar(a[n])]

\* issueData.assignees && issueData.assignees.length > 0
hasAssignees(v) ==
  \/ v.k = "arr" /\ Len(v.a) > 0
  \/ v.k = "str" /\ Len(v.s) > 0

\* the branch of line 206 taken with v: what the container holds afterwards
\* and whether the forEach threw
renderAssignees(v) ==
  IF hasAssignees(v)
  THEN IF v.k = "arr"
       THEN [children |-> appendAvatars(v.a),
             threw |-> FirstNonString(v.a) <= Len(v.a)]
       ELSE [children |-> <<>>, threw |-> TRUE]
  ELSE [children |-> <<NoAssignees>>, threw |-> FALSE]

\* the chips of the labels container after the forEach of line 193
renderLabels(a) == [n \in 1..Len(a) |-> LabelChip(a[n])]

Thrown(p) == [preview |-> p, threw |-> TRUE]

\* a container that keeps its children
innerHTMLKept(children) == children

\* lines 192 and 205: container.innerHTML = ''
innerHTMLEmpty(children) == <<>>

\* updateIssuePreview(issueData) on the preview p: the preview it leaves and
\* whether it threw.  The statements run in order and a TypeError leaves
\* what the earlier statements wrote.
updateIssuePreview(p, d) ==
  IF d.isNull THEN Thrown(p)
  ELSE LET p1 == [p EXCEPT !.title = TextContent(d.title)] IN
  IF d.priority.k # "str" THEN Thrown(p1)
  ELSE LET p2 == [p1 EXCEPT
                    !.priorityText = toUpperCase(d.priority.s),
                    !.priorityClass = PriorityClassPrefix \o d.priority.s,
                    !.timeText = TextContent(d.estimated_time),
                    !.labels = innerHTMLEmpty(p1.labels)] IN
  IF d.labels.k # "arr" THEN Thrown(p2)
  ELSE LET r == renderAssignees(d.assignees)
           p3 == [p2 EXCEPT
                    !.labels = p2.labels \o renderLabels(d.labels.a),
                    !.description = TextContent(d.description),
                    !.assignees =
                       IF hasAssignees(d.assignees)
                       THEN innerHTMLEmpty(p2.assignees) \o r.children
                       ELSE r.children] IN
  IF r.threw THEN Thrown(p3)
  ELSE [preview |-> [p3 EXCEPT !.hidden = FALSE, !.visible = TRUE],
        threw |-> FALSE]

\* the preview panel before the first update
InitialPreview ==
  [title |-> <<>>, priorityText |-> <<>>, priorityClass |-> <<>>,
   timeText |-> <<>>, labels |-> <<>>, description |-> <<>>,
   assignees |-> <<>>, hidden |-> TRUE, visible |-> FALSE]

(***************************************************************************)
(* The output area                                                         *)
(***************************************************************************)
\* hljs.highlight(text, {language: "json"}): every token in a span of its class
TokenClass(toks, n) ==
  CASE toks[n].t = "str" ->
         IF n < Len(toks) /\ toks[n + 1].t = ":" THEN "hljs-attr"
         ELSE "hljs-string"
    [] toks[n].t = "num" -> "hljs-number"
    [] toks[n].t = "null" -> "hljs-keyword"
    [] toks[n].t = "bare" -> ""
    [] OTHER -> "hljs-punctuation"

highlight(toks) ==
  [n \in 1..Len(toks) |-> [cls |-> TokenClass(toks, n), tok |-> toks[n]]]

Area(kind, msg, text, html) ==
  [kind |-> kind, msg |-> msg, text |-> text, html |-> html]

EmptyArea == Area("empty", "", <<>>, <<>>)
\* <div class="loading">msg</div>
Loading(msg) == Area("loading", msg, <<>>, <<>>)
\* <pre><code class="language-json">text</code></pre>
PartialText(text) == Area("pre", "", text, <<>>)
\* the markup hljs returned
Highlighted(html) == Area("hljs", "", <<>>, html)
\* <div class="error">Error: msg</div>
ErrorBanner(msg) == Area("error", msg, <<>>, <<>>)

(***************************************************************************)
(* The stats line                                                          *)
(***************************************************************************)
\* A speed is a number of hundredths of a token per second; Absent is a
\* missing field.
Absent == 0 - 1

\* Number.prototype.toFixed(1): tenths, rounded to nearest
toFixed1(x) == (x + 5) \div 10

\* what `if (x)` tests of a speed: undefined and 0 are falsy
Truthy(x) == x # Absent /\ x # 0

Segment(label, x) == [label |-> label, tenths |-> toFixed1(x)]
Separator == [label |-> " | ", tenths |-> 0]

\* lines 159-165: the parts pushed for usage.extra
statsTextParts(extra) ==
  (IF Truthy(extra.prefill_tokens_per_s)
   THEN <<Segment("Prefill Speed", extra.prefill_tokens_per_s)>> ELSE <<>>)
  \o
  (IF Truthy(extra.decode_tokens_per_s)
   THEN <<Segment("Decode Speed", extra.decode_tokens_per_s)>> ELSE <<>>)

RECURSIVE joinPartsLeading(_)
\* a join that writes the separator before every part
joinPartsLeading(parts) ==
  IF Len(parts) = 0 THEN <<>>
  ELSE <<Separator, parts[1]>> \o joinPartsLeading(Tail(parts))

RECURSIVE joinParts(_)
\* statsTextParts.join(" | ")
joinParts(parts) ==
  IF Len(parts) <= 1 THEN parts
  ELSE <<parts[1], Separator>> \o joinParts(Tail(parts))

InitialStats == [textContent |-> <<>>, hidden |-> TRUE]

(***************************************************************************)
(* State                                                                   *)
(***************************************************************************)
VARIABLES
  model_list,     \* prebuiltAppConfig.model_list, the ids of its entries
  selectedModel,  \* line 26
  engine,         \* line 9: the stored session, NoEngine for null
  schema,         \* the text in the schema editor
  outputDiv,      \* the content of the output area
  stats,          \* the stats paragraph
  preview,        \* the issue preview panel
  pc,             \* where each run of the click handler is
  created,        \* the id each run passed to CreateMLCEngine
  schemaInput,    \* line 118, per run
  curMessage,     \* line 130, per run
  usage,          \* line 131, per run
  chunks,         \* number of chunks each run has consumed
  session,        \* the session each run called chatCompletion on
  finalOn,        \* the session each run called getMessage on
  finalMessage,   \* line 146, per run
  error,          \* the message of the error each run caught at line 169
  parseLogged,    \* whether each run logged at line 155
  selections,     \* history: number of change events so far
  changes,        \* history: e.target.value of the last two change events
  selectedAt,     \* history: per run, what changes was at its click
  delivered,      \* history: per run, the deltas of its chunks as they arrived
  changed         \* history: a change event has come since the last click

dom == <<outputDiv, stats, preview>>
locals ==
  <<pc, created, schemaInput, curMessage, usage, chunks, session, finalOn,
    finalMessage, error, parseLogged>>
history == <<selections, changes, selectedAt, delivered, changed>>
vars == <<model_list, selectedModel, engine, schema, dom, locals, history>>

Runs == 1..MaxInv

\* a model id is the sequence of the pieces of its name
NoModel == <<>>
NoEngine == [model |-> NoModel, by |-> 0]
\* the session CreateMLCEngine(m) returned to run i
Session(m, i) == [model |-> m, by |-> i]

NoUsage ==
  [present |-> FALSE,
   extra |-> [prefill_tokens_per_s |-> Absent, decode_tokens_per_s |-> Absent]]
Usage(prefill, decode) ==
  [present |-> TRUE,
   extra |-> [prefill_tokens_per_s |-> prefill, decode_tokens_per_s |-> decode]]

\* String.prototype.startsWith
startsWith(id, prefix) ==
  Len(prefix) <= Len(id) /\ SubSeq(id, 1, Len(prefix)) = prefix

ModelPrefix == <<"Smol", "LM2">>

\* a filter that lets every id through
filterModelsAll(list) == list

RECURSIVE filterModels(_)
\* lines 19-24: the ids of the catalog that start with the prefix, in order
filterModels(list) ==
  IF Len(list) = 0 THEN <<>>
  ELSE (IF startsWith(Head(list), ModelPrefix) THEN <<Head(list)>> ELSE <<>>)
       \o filterModels(Tail(list))

availableModels == filterModels(model_list)

\* line 26: availableModels[0], undefined for an empty list
firstModel(list) == IF Len(list) = 0 THEN NoModel ELSE list[1]

\* the catalog the page is built with
PrebuiltModelList ==
  <<<<"Llama", "-3.2-1B">>, <<"Smol", "LM2", "-360M">>, <<"Smol", "LM", "-135M">>,
    <<"Smol", "LM2", "-1.7B">>, <<"Smol", "LM2", "-135M">>>>

(***************************************************************************)
(* The click handler of "generate", lines 105-173                          *)
(***************************************************************************)
InitializingText == "Initializing model..."
GeneratingText == "Generating response..."
SyntaxErrorText == "Unexpected token in JSON"
NullEngineText == "Cannot read properties of null (reading 'getMessage')"

\* a catch block that shows the error object instead of its message
CatchShowingObject(i, message) ==
  /\ outputDiv' = ErrorBanner("[object Object]")
  /\ pc' = [pc EXCEPT ![i] = "failed"]
  /\ error' = [error EXCEPT ![i] = message]

\* a catch block that puts the run back to where a click starts it
CatchAndRetry(i, message) ==
  /\ outputDiv' = ErrorBanner(message)
  /\ pc' = [pc EXCEPT ![i] = "idle"]
  /\ error' = [error EXCEPT ![i] = message]

\* lines 169-172: the catch block of run i, with the message of the error
Catch(i, message) ==
  /\ outputDiv' = ErrorBanner(message)
  /\ pc' = [pc EXCEPT ![i] = "failed"]
  /\ error' = [error EXCEPT ![i] = message]

\* the model id line 110 passes to CreateMLCEngine
acquireTarget == selectedModel

\* run i has settled
Ended(i) == pc[i] \in {"succeeded", "failed"}

\* A run that has ended has no frame any more: at the next click its locals
\* are dropped.  f without the entries of the runs that have ended.
\* a click that drops the locals of every earlier run
LiveNone(f, none) == [j \in Runs |-> none]

Live(f, none) == [j \in Runs |-> IF Ended(j) THEN none ELSE f[j]]

Kept(f, none, drop) == IF drop THEN Live(f, none) ELSE f

\* lines 118-134 of run i, with e the value of engine: read and validate the
\* schema, reset the locals and call e.chatCompletion.  drop: this is a click.
Request(i, e, drop) ==
  /\ schemaInput' = [Kept(schemaInput, <<>>, drop) EXCEPT ![i] = schema]
  /\ IF JSONValid(schema)
     THEN /\ outputDiv' = Loading(GeneratingText)
          /\ pc' = [pc EXCEPT ![i] = "requesting"]
          /\ session' = [Kept(session, NoEngine, drop) EXCEPT ![i] = e]
          /\ curMessage' = [Kept(curMessage, <<>>, drop) EXCEPT ![i] = <<>>]
          /\ usage' = [Kept(usage, NoUsage, drop) EXCEPT ![i] = NoUsage]
          /\ UNCHANGED error
     ELSE /\ Catch(i, SyntaxErrorText)
          /\ session' = Kept(session, NoEngine, drop)
          /\ curMessage' = Kept(curMessage, <<>>, drop)
          /\ usage' = Kept(usage, NoUsage, drop)
  /\ chunks' = Kept(chunks, 0, drop)

\* lines 105-116: a click; the run goes as far as its first await
Click(i) ==
  /\ pc[i] = "idle"
  /\ IF i = 1 THEN TRUE ELSE pc[i - 1] # "idle"
  /\ IF engine = NoEngine
     THEN /\ outputDiv' = Loading(InitializingText)
          /\ created' = [Live(created, NoModel) EXCEPT ![i] = acquireTarget]
          /\ pc' = [pc EXCEPT ![i] = "acquiring"]
          /\ schemaInput' = Live(schemaInput, <<>>)
          /\ curMessage' = Live(curMessage, <<>>)
          /\ usage' = Live(usage, NoUsage)
          /\ chunks' = Live(chunks, 0)
          /\ session' = Live(session, NoEngine)
          /\ UNCHANGED error
     ELSE /\ Request(i, engine, TRUE)
          /\ created' = Live(created, NoModel)
  /\ finalOn' = Live(finalOn, NoEngine)
  /\ finalMessage' = Live(finalMessage, <<>>)
  /\ parseLogged' = Live(parseLogged, FALSE)
  /\ selectedAt' = [Live(selectedAt, <<>>) EXCEPT ![i] = changes]
  /\ delivered' = Live(delivered, <<>>)
  /\ changed' = FALSE
  /\ UNCHANGED <<model_list, selectedModel, engine, schema, stats, preview,
                 selections, changes>>

\* lines 111-114: initProgressCallback
AcquireProgress(i, text) ==
  /\ pc[i] = "acquiring"
  /\ outputDiv' = Loading(text)
  /\ UNCHANGED <<model_list, selectedModel, engine, schema, stats, preview,
                 locals, history>>

\* the session line 110 stores when the await of run i resolves
acquired(i) == Session(created[i], i)

\* line 110 resolves: the session is stored and the run goes on to line 134
AcquireResolve(i) ==
  /\ pc[i] = "acquiring"
  /\ engine' = acquired(i)
  /\ Request(i, engine', FALSE)
  /\ UNCHANGED <<model_list, selectedModel, schema, stats, preview, created,
                 finalOn, finalMessage, parseLogged, history>>

\* a rejection that leaves a session stored all the same
AcquireRejectStoring(i, message) ==
  /\ pc[i] = "acquiring"
  /\ engine' = Session(created[i], i)
  /\ outputDiv' = ErrorBanner(message)
  /\ pc' = [pc EXCEPT ![i] = "failed"]
  /\ error' = [error EXCEPT ![i] = message]
  /\ UNCHANGED <<model_list, selectedModel, schema, stats, preview,
                 created, schemaInput, curMessage, usage, chunks, session,
                 finalOn, finalMessage, parseLogged, history>>

\* line 110 rejects
AcquireReject(i, message) ==
  /\ pc[i] = "acquiring"
  /\ Catch(i, message)
  /\ UNCHANGED <<model_list, selectedModel, engine, schema, stats, preview,
                 created, schemaInput, curMessage, usage, chunks, session,
                 finalOn, finalMessage, parseLogged, history>>

\* line 134 resolves with the generator
RequestResolve(i) ==
  /\ pc[i] = "requesting"
  /\ pc' = [pc EXCEPT ![i] = "streaming"]
  /\ UNCHANGED <<model_list, selectedModel, engine, schema, dom, created,
                 schemaInput, curMessage, usage, chunks, session, finalOn,
                 finalMessage, error, parseLogged, history>>

\* line 134 rejects
RequestReject(i, message) ==
  /\ pc[i] = "requesting"
  /\ Catch(i, message)
  /\ UNCHANGED <<model_list, selectedModel, engine, schema, stats, preview,
                 created, schemaInput, curMessage, usage, chunks, session,
                 finalOn, finalMessage, parseLogged, history>>

\* a buffer that takes the new delta in front
appendDeltaInFront(message, delta) == delta \o message

\* line 138: the buffer after a chunk with this delta (an empty delta is falsy)
appendDelta(message, delta) == message \o delta

\* lines 139-142: the usage kept after a chunk
keepUsage(old, new) == IF new.present THEN new ELSE old

\* lines 136-144: one turn of the loop, for the chunk c
Chunk(i, c) ==
  /\ pc[i] = "streaming"
  /\ chunks[i] < MaxChunks
  /\ chunks' = [chunks EXCEPT ![i] = @ + 1]
  /\ curMessage' = [curMessage EXCEPT ![i] = appendDelta(@, c.delta)]
  /\ usage' = [usage EXCEPT ![i] = keepUsage(@, c.usage)]
  /\ outputDiv' = PartialText(curMessage'[i])
  /\ delivered' = [delivered EXCEPT ![i] = Append(@, c.delta)]
  /\ UNCHANGED <<model_list, selectedModel, engine, schema, stats, preview,
                 pc, created, schemaInput, session, finalOn, finalMessage,
                 error, parseLogged, selections, changes, selectedAt,
                 changed>>

\* the generator throws
StreamError(i, message) ==
  /\ pc[i] = "streaming"
  /\ Catch(i, message)
  /\ UNCHANGED <<model_list, selectedModel, engine, schema, stats, preview,
                 created, schemaInput, curMessage, usage, chunks, session,
                 finalOn, finalMessage, parseLogged, history>>

\* the generator ends and line 146 calls getMessage on the value of engine
StreamEnd(i) ==
  /\ pc[i] = "streaming"
  /\ IF engine = NoEngine
     THEN /\ Catch(i, NullEngineText)
          /\ UNCHANGED finalOn
     ELSE /\ pc' = [pc EXCEPT ![i] = "finalizing"]
          /\ finalOn' = [finalOn EXCEPT ![i] = engine]
          /\ UNCHANGED <<outputDiv, error>>
  /\ UNCHANGED <<model_list, selectedModel, engine, schema, stats, preview,
                 created, schemaInput, curMessage, usage, chunks, session,
                 finalMessage, parseLogged, history>>

\* reading the accumulated deltas instead of the final message
finalSourceBuffer(message, buffer) == buffer

\* the text lines 147 and 152 read
finalSource(message, buffer) == message

\* an update that empties the preview when the text cannot be used
tryUpdateResetting(p, text) ==
  LET issueData == JSONParse(text) IN
  IF issueData.ok
  THEN LET r == updateIssuePreview(p, issueData) IN
       [preview |-> r.preview, logged |-> r.threw]
  ELSE [preview |-> InitialPreview, logged |-> TRUE]

\* lines 151-156 on the preview p: the preview left and whether line 155 logged
tryUpdate(p, text) ==
  LET issueData == JSONParse(text) IN
  IF issueData.ok
  THEN LET r == updateIssuePreview(p, issueData) IN
       [preview |-> r.preview, logged |-> r.threw]
  ELSE [preview |-> p, logged |-> TRUE]

\* lines 158-168 on the stats paragraph st
showStats(st, u) ==
  IF u.present
  THEN [textContent |-> joinParts(statsTextParts(u.extra)), hidden |-> FALSE]
  ELSE st

\* line 146 resolves with message: lines 147-168
FinalResolve(i, message) ==
  /\ pc[i] = "finalizing"
  /\ finalMessage' = [finalMessage EXCEPT ![i] = message]
  /\ outputDiv' = Highlighted(highlight(finalSource(message, curMessage[i])))
  /\ LET r == tryUpdate(preview, finalSource(message, curMessage[i])) IN
       /\ preview' = r.preview
       /\ parseLogged' = [parseLogged EXCEPT ![i] = r.logged]
  /\ stats' = showStats(stats, usage[i])
  /\ pc' = [pc EXCEPT ![i] = "succeeded"]
  /\ UNCHANGED <<model_list, selectedModel, engine, schema, created,
                 schemaInput, curMessage, usage, chunks, session, finalOn,
                 error, history>>

\* line 146 rejects
FinalReject(i, message) ==
  /\ pc[i] = "finalizing"
  /\ Catch(i, message)
  /\ UNCHANGED <<model_list, selectedModel, engine, schema, stats, preview,
                 created, schemaInput, curMessage, usage, chunks, session,
                 finalOn, finalMessage, parseLogged, history>>

(***************************************************************************)
(* The other handlers                                                      *)
(***************************************************************************)
\* lines 37-40: the change event of the model dropdown, with e.target.value
onchange(value) ==
  /\ value # selectedModel
  /\ \E n \in 1..Len(availableModels) : availableModels[n] = value
  /\ selectedModel' = value
  /\ engine' = NoEngine
  /\ selections < MaxSelect
  /\ selections' = selections + 1
  /\ changes' = IF Len(changes) < 2 THEN Append(changes, value)
                 ELSE <<changes[2], value>>
  /\ changed' = TRUE
  /\ UNCHANGED <<selectedAt, delivered>>
  /\ UNCHANGED <<model_list, schema, dom, locals>>

\* the user replaces the text of the schema editor
EditSchema(text) ==
  /\ text # schema
  /\ schema' = text
  /\ UNCHANGED <<model_list, selectedModel, engine, dom, locals, history>>

(***************************************************************************)
(* Inputs: what the user types and what the engine answers                 *)
(***************************************************************************)
RECURSIVE Commas(_)
\* the token sequences of items, with a comma between two of them
Commas(items) ==
  IF Len(items) = 0 THEN <<>>
  ELSE IF Len(items) = 1 THEN items[1]
  ELSE items[1] \o <<Punct(",")>> \o Commas(Tail(items))

Member(key, value) == <<Str(<<key>>), Punct(":")>> \o value
Object(members) == <<Punct("{")>> \o Commas(members) \o <<Punct("}")>>
Array(items) == <<Punct("[")>> \o Commas(items) \o <<Punct("]")>>
Strings(ss) == Array([n \in 1..Len(ss) |-> <<Str(ss[n])>>])

\* lines 50-95, shortened: the schema the editor starts with
DefaultSchema ==
  Object(<<Member("title", <<Str(<<"GitHubIssue">>)>>),
           Member("type", <<Str(<<"object">>)>>),
           Member("properties",
                  Object(<<Member("assignees",
                                  Object(<<Member("type", <<Str(<<"array">>)>>),
                                           Member("maxItems", <<Num(<<"3">>)>>)>>))>>)),
           Member("required",
                  Strings(<<<<"title">>, <<"description">>, <<"priority">>,
                            <<"labels">>>>))>>)

\* "{ invalid"
BrokenSchema == <<Punct("{"), Bare(<<"invalid">>)>>

SchemaTexts == {DefaultSchema, BrokenSchema}

alice == <<"a", "l", "i", "c", "e">>
Bob == <<"B", "o", "b">>
high == <<"h", "i", "g", "h">>
low == <<"l", "o", "w">>

TitleMember == Member("title", <<Str(<<"Password reset emails are not delivered">>)>>)
DescriptionMember == Member("description", <<Str(<<"About 20% of users are affected.">>)>>)
LabelsMember == Member("labels", Strings(<<<<"bug">>, <<"high-priority">>>>))
TimeMember == Member("estimated_time", <<Str(<<"2", "d">>)>>)

\* a record with every field
FullIssue ==
  Object(<<TitleMember, DescriptionMember,
           Member("priority", <<Str(high)>>), LabelsMember,
           Member("assignees", Strings(<<alice, Bob>>)), TimeMember>>)

\* a record with the required fields only
RequiredIssue ==
  Object(<<Member("title", <<Str(<<"Expired reset links">>)>>),
           Member("description", <<Str(<<"Links expire too early.">>)>>),
           Member("priority", <<Str(low)>>),
           Member("labels", Strings(<<<<"security">>>>))>>)

\* a record whose assignees array is empty
UnassignedIssue ==
  Object(<<TitleMember, Member("priority", <<Str(low)>>),
           Member("labels", Strings(<<>>)), Member("assignees", Strings(<<>>))>>)

\* the full record cut off before its closing brace: not JSON
CutIssue == SubSeq(FullIssue, 1, Len(FullIssue) - 1)

\* JSON, but priority is missing
NoPriorityIssue == Object(<<TitleMember, DescriptionMember, LabelsMember>>)

\* JSON, but labels is missing
NoLabelsIssue ==
  Object(<<Member("title", <<Str(<<"Expired reset links">>)>>),
           Member("priority", <<Str(low)>>), TimeMember>>)

\* the deltas a stream carries: the two halves of the full record, and none
FirstHalf == SubSeq(FullIssue, 1, 7)
SecondHalf == SubSeq(FullIssue, 8, Len(FullIssue))
NoDelta == <<>>

ChunkOf(delta, u) == [delta |-> delta, usage |-> u]

BothSpeeds == Usage(1234, 560)
DecodeOnly == Usage(Absent, 560)
ZeroPrefill == Usage(0, 567)
NoSpeeds == Usage(Absent, Absent)

\* the chunks of a stream: text chunks, and chunks with the usage
Chunks ==
  {ChunkOf(FirstHalf, NoUsage), ChunkOf(SecondHalf, NoUsage),
   ChunkOf(NoDelta, NoUsage), ChunkOf(NoDelta, BothSpeeds),
   ChunkOf(NoDelta, DecodeOnly), ChunkOf(NoDelta, ZeroPrefill),
   ChunkOf(NoDelta, NoSpeeds), ChunkOf(SecondHalf, BothSpeeds)}

\* what getMessage resolves with
FinalMessages ==
  {FullIssue, RequiredIssue, UnassignedIssue, CutIssue, NoPriorityIssue,
   NoLabelsIssue}

\* fewer of them, for the specifications where the user acts during a run
FewChunks == {ChunkOf(FirstHalf, NoUsage), ChunkOf(NoDelta, DecodeOnly)}
FewMessages == {FullIssue, CutIssue}
\* and the one chunk of the streams of runs that overlap
TextChunks == {ChunkOf(FirstHalf, NoUsage)}

\* the messages of the errors the engine rejects with
EngineErrors == {"Failed to fetch"}

\* progress.text of the progress events
ProgressTexts == {"Loading model from cache"}

(***************************************************************************)
(* Specification                                                           *)
(***************************************************************************)
Init ==
  /\ model_list = PrebuiltModelList
  /\ selectedModel = firstModel(filterModels(PrebuiltModelList))
  /\ engine = NoEngine
  /\ schema = DefaultSchema
  /\ outputDiv = EmptyArea
  /\ stats = InitialStats
  /\ preview = InitialPreview
  /\ pc = [i \in Runs |-> "idle"]
  /\ created = [i \in Runs |-> NoModel]
  /\ schemaInput = [i \in Runs |-> <<>>]
  /\ curMessage = [i \in Runs |-> <<>>]
  /\ usage = [i \in Runs |-> NoUsage]
  /\ chunks = [i \in Runs |-> 0]
  /\ session = [i \in Runs |-> NoEngine]
  /\ finalOn = [i \in Runs |-> NoEngine]
  /\ finalMessage = [i \in Runs |-> <<>>]
  /\ error = [i \in Runs |-> ""]
  /\ parseLogged = [i \in Runs |-> FALSE]
  /\ selections = 0
  /\ changes = <<>>
  /\ selectedAt = [i \in Runs |-> <<>>]
  /\ delivered = [i \in Runs |-> <<>>]
  /\ changed = FALSE

\* the user clicks and changes the model at any time, so that runs overlap;
\* the schema editor keeps its default text and every chunk carries text
Next ==
  \/ \E i \in Runs : Click(i)
  \/ \E i \in Runs, text \in ProgressTexts : AcquireProgress(i, text)
  \/ \E i \in Runs : AcquireResolve(i)
  \/ \E i \in Runs, message \in EngineErrors : AcquireReject(i, message)
  \/ \E i \in Runs : RequestResolve(i)
  \/ \E i \in Runs, message \in EngineErrors : RequestReject(i, message)
  \/ \E i \in Runs, c \in TextChunks : Chunk(i, c)
  \/ \E i \in Runs, message \in EngineErrors : StreamError(i, message)
  \/ \E i \in Runs : StreamEnd(i)
  \/ \E i \in Runs, message \in FewMessages : FinalResolve(i, message)
  \/ \E i \in Runs, message \in EngineErrors : FinalReject(i, message)
  \/ \E n \in 1..Len(availableModels) : onchange(availableModels[n])

Spec == Init /\ [][Next]_vars

(***************************************************************************)
(* The same handlers with one run at a time: the user clicks again only    *)
(* after the run before has ended, and leaves the dropdown and the editor  *)
(* alone.  The engine's answers range over all the chunks and final        *)
(* messages above.                                                         *)
(***************************************************************************)
Quiet == \A j \in Runs : pc[j] = "idle" \/ Ended(j)

ClickAlone(i) == Quiet /\ Click(i)

NextSolo ==
  \/ \E i \in Runs : ClickAlone(i)
  \/ \E i \in Runs, text \in ProgressTexts : AcquireProgress(i, text)
  \/ \E i \in Runs : AcquireResolve(i)
  \/ \E i \in Runs, message \in EngineErrors : AcquireReject(i, message)
  \/ \E i \in Runs : RequestResolve(i)
  \/ \E i \in Runs, message \in EngineErrors : RequestReject(i, message)
  \/ \E i \in Runs, c \in Chunks : Chunk(i, c)
  \/ \E i \in Runs, message \in EngineErrors : StreamError(i, message)
  \/ \E i \in Runs : StreamEnd(i)
  \/ \E i \in Runs, message \in FinalMessages : FinalResolve(i, message)
  \/ \E i \in Runs, message \in EngineErrors : FinalReject(i, message)

SpecSolo == Init /\ [][NextSolo]_vars

\* the engine settles what run i awaits: the promise of line 110, 134 or 146
\* resolves or rejects, the generator of line 136 ends or throws
Responds(i) ==
  \/ AcquireResolve(i)
  \/ \E message \in EngineErrors : AcquireReject(i, message)
  \/ RequestResolve(i)
  \/ \E message \in EngineErrors : RequestReject(i, message)
  \/ StreamEnd(i)
  \/ \E message \in EngineErrors : StreamError(i, message)
  \/ \E message \in FinalMessages : FinalResolve(i, message)
  \/ \E message \in EngineErrors : FinalReject(i, message)

\* the same steps, told by what they do to the run: it alone moves on from
\* the await it is at
Settled(i) ==
  /\ pc[i] \in {"acquiring", "requesting", "streaming", "finalizing"}
  /\ \E to \in {"requesting", "streaming", "finalizing", "succeeded", "failed"} :
       /\ to # pc[i]
       /\ pc' = [pc EXCEPT ![i] = to]

\* SpecSolo with an engine that does not leave a run waiting for ever
SpecFair == SpecSolo /\ \A i \in Runs : WF_pc(Settled(i))

(***************************************************************************)
(* One run at a time again, with the few chunks and messages of Spec,      *)
(* while the user changes the model and edits the schema at any time,      *)
(* also during a run.                                                      *)
(***************************************************************************)
NextUser ==
  \/ \E i \in Runs : ClickAlone(i)
  \/ \E i \in Runs, text \in ProgressTexts : AcquireProgress(i, text)
  \/ \E i \in Runs : AcquireResolve(i)
  \/ \E i \in Runs, message \in EngineErrors : AcquireReject(i, message)
  \/ \E i \in Runs : RequestResolve(i)
  \/ \E i \in Runs, message \in EngineErrors : RequestReject(i, message)
  \/ \E i \in Runs, c \in FewChunks : Chunk(i, c)
  \/ \E i \in Runs, message \in EngineErrors : StreamError(i, message)
  \/ \E i \in Runs : StreamEnd(i)
  \/ \E i \in Runs, message \in FewMessages : FinalResolve(i, message)
  \/ \E i \in Runs, message \in EngineErrors : FinalReject(i, message)
  \/ \E n \in 1..Len(availableModels) : onchange(availableModels[n])
  \/ \E text \in SchemaTexts : EditSchema(text)

SpecUser == Init /\ [][NextUser]_vars

(***************************************************************************)
(* The page loaded with any catalog: the dropdown and its change events.   *)
(***************************************************************************)
\* ids a catalog may hold: two with the prefix, one that only resembles it,
\* one that has it in lower case and one that has it after other text
CatalogIds ==
  {<<"Smol", "LM2", "-360M">>, <<"Smol", "LM2", "-1.7B">>,
   <<"Smol", "LM", "-135M">>, <<"smol", "lm2", "-135M">>,
   <<"Llama", "Smol", "LM2">>}

Catalogs == UNION {[1..n -> CatalogIds] : n \in 0..MaxCatalog}

InitCatalog ==
  /\ model_list \in Catalogs
  /\ selectedModel = firstModel(filterModels(model_list))
  /\ engine = NoEngine
  /\ schema = DefaultSchema
  /\ outputDiv = EmptyArea
  /\ stats = InitialStats
  /\ preview = InitialPreview
  /\ pc = [i \in Runs |-> "idle"]
  /\ created = [i \in Runs |-> NoModel]
  /\ schemaInput = [i \in Runs |-> <<>>]
  /\ curMessage = [i \in Runs |-> <<>>]
  /\ usage = [i \in Runs |-> NoUsage]
  /\ chunks = [i \in Runs |-> 0]
  /\ session = [i \in Runs |-> NoEngine]
  /\ finalOn = [i \in Runs |-> NoEngine]
  /\ finalMessage = [i \in Runs |-> <<>>]
  /\ error = [i \in Runs |-> ""]
  /\ parseLogged = [i \in Runs |-> FALSE]
  /\ selections = 0
  /\ changes = <<>>
  /\ selectedAt = [i \in Runs |-> <<>>]
  /\ delivered = [i \in Runs |-> <<>>]
  /\ changed = FALSE

NextCatalog ==
  \E n \in 1..Len(availableModels) : onchange(availableModels[n])

SpecCatalog == InitCatalog /\ [][NextCatalog]_vars

(***************************************************************************)
(* Properties                                                              *)
(***************************************************************************)
\* run i takes, in this step, the step that ends its wait in state `from`
Leaves(i, from) == pc[i] = from /\ pc'[i] # from

\* run i read a schema text that JSON.parse rejects
ReadBrokenSchema(i) == schemaInput[i] # <<>> /\ ~JSONValid(schemaInput[i])

\* C1: a run whose schema text fails JSON parsing fails with the parse error
\* and has called neither CreateMLCEngine nor chatCompletion nor getMessage,
\* also when no session existed at the click.
C1_BrokenSchemaTouchesNoEngine ==
  \A i \in Runs :
    ReadBrokenSchema(i) =>
      /\ pc[i] = "failed"
      /\ error[i] = SyntaxErrorText
      /\ created[i] = NoModel
      /\ session[i] = NoEngine
      /\ finalOn[i] = NoEngine

\* C2: a stored session was created for the selected model id.
C2_SessionIsForSelectedModel ==
  engine # NoEngine => engine.model = selectedModel

\* C3: when two change events, the second for y, come before the first click,
\* the first run acquires for y and calls no session created for the id of
\* the first change event, neither for its stream nor for its final message.
C3_AcquiresForLastSelection ==
  Len(selectedAt[1]) = 2 =>
    /\ created[1] = selectedAt[1][2]
    /\ (session[1] # NoEngine => session[1].model # selectedAt[1][1])
    /\ (finalOn[1] # NoEngine => finalOn[1].model # selectedAt[1][1])

\* C4: an error raised while a run waits for the session, the generator, a
\* chunk or the final message ends the run as failed with the output area
\* showing that error's message alone, and leaves the preview and the stats
\* line as they were.
C4_ErrorShownNothingRolledBack ==
  [][\A i \in Runs :
       (/\ pc[i] \in {"acquiring", "requesting", "streaming", "finalizing"}
        /\ pc'[i] = "failed") =>
         /\ error'[i] # ""
         /\ outputDiv' = ErrorBanner(error'[i])
         /\ preview' = preview
         /\ stats' = stats]_vars

C4_Witness ==
  \E i \in Runs :
    /\ pc[i] = "failed"
    /\ error[i] \in EngineErrors
    /\ curMessage[i] # <<>>
    /\ outputDiv = ErrorBanner(error[i])
    /\ ~preview.hidden
    /\ ~stats.hidden

\* C5: when the final message is not JSON, the preview is not touched, the
\* output area shows the highlighted final text and no error is shown; the
\* failure is logged.
C5_NotJSONLeavesPreview ==
  [][\A i \in Runs :
       (Leaves(i, "finalizing") /\ pc'[i] = "succeeded"
        /\ ~JSONValid(finalMessage'[i])) =>
         /\ preview' = preview
         /\ outputDiv' = Highlighted(highlight(finalMessage'[i]))
         /\ error'[i] = ""
         /\ parseLogged'[i]]_vars

C5_Witness ==
  \E i \in Runs :
    /\ pc[i] = "succeeded"
    /\ finalMessage[i] = CutIssue
    /\ outputDiv = Highlighted(highlight(CutIssue))
    /\ parseLogged[i]
    /\ preview.title = <<"Expired reset links">>

\* the record of d lacks priority or labels
LacksRequired(d) == d.priority.k = "undefined" \/ d.labels.k = "undefined"

\* C6: when the final text is JSON but lacks priority or labels, the failure
\* is only logged and every field of the preview keeps its value.
C6_ShapeMismatchLeavesPreview ==
  [][\A i \in Runs :
       (Leaves(i, "finalizing") /\ pc'[i] = "succeeded"
        /\ JSONValid(finalMessage'[i])
        /\ LacksRequired(JSONParse(finalMessage'[i]))) =>
         /\ parseLogged'[i]
         /\ error'[i] = ""
         /\ preview' = preview]_vars

\* run i called CreateMLCEngine and caught its rejection
AcquisitionFailed(i) ==
  pc[i] = "failed" /\ created[i] # NoModel /\ schemaInput[i] = <<>>

\* C7: a run whose acquisition threw stores no session, and the next run
\* calls CreateMLCEngine again, for the selected id.
C7_FailedAcquisitionIsRetried ==
  /\ [](\A i \in Runs :
         AcquisitionFailed(i) => session[i] = NoEngine /\ engine = NoEngine)
  /\ [][\A i \in Runs :
          (i < MaxInv /\ AcquisitionFailed(i) /\ Leaves(i + 1, "idle")) =>
            /\ pc'[i + 1] = "acquiring"
            /\ created'[i + 1] = selectedModel
            /\ created'[i + 1] # NoModel]_vars

C7_Witness ==
  /\ pc[1] = "failed"
  /\ pc[2] = "succeeded"
  /\ created[2] = selectedModel
  /\ engine = Session(selectedModel, 2)

\* C8: the final output is the highlighted final message and the preview is
\* updated from the final message, whatever the deltas added up to.
C8_FinalMessageIsTheSource ==
  [][\A i \in Runs :
       (Leaves(i, "finalizing") /\ pc'[i] = "succeeded") =>
         /\ outputDiv' = Highlighted(highlight(finalMessage'[i]))
         /\ preview' =
              IF JSONValid(finalMessage'[i])
              THEN updateIssuePreview(preview, JSONParse(finalMessage'[i])).preview
              ELSE preview]_vars

C8_Witness ==
  \E i \in Runs :
    /\ pc[i] = "succeeded"
    /\ curMessage[i] = FullIssue
    /\ finalMessage[i] = RequiredIssue
    /\ outputDiv = Highlighted(highlight(RequiredIssue))
    /\ preview.title = <<"Expired reset links">>
    /\ preview.priorityText = <<"L", "O", "W">>

\* the segment shown for the speed x under this label
IsSegment(seg, label, x) ==
  /\ seg.label = label
  /\ 10 * seg.tenths - x \in (0 - 5)..5

\* text is the summary of the speeds p (shown when showP) and d (shown when
\* showD): a segment for each one shown, prefill first, " | " between two,
\* nothing before or after
IsSummary(text, p, showP, d, showD) ==
  CASE showP /\ showD ->
         /\ Len(text) = 3
         /\ IsSegment(text[1], "Prefill Speed", p)
         /\ text[2] = [label |-> " | ", tenths |-> 0]
         /\ IsSegment(text[3], "Decode Speed", d)
    [] showP /\ ~showD ->
         Len(text) = 1 /\ IsSegment(text[1], "Prefill Speed", p)
    [] ~showP /\ showD ->
         Len(text) = 1 /\ IsSegment(text[1], "Decode Speed", d)
    [] OTHER -> text = <<>>

IsPresent(x) == x # Absent
IsPresentAndNonZero(x) == x # Absent /\ x # 0

\* the stats line shows a segment for every speed of u that is present
ShowsPresent(st, u) ==
  IsSummary(st.textContent,
            u.extra.prefill_tokens_per_s, IsPresent(u.extra.prefill_tokens_per_s),
            u.extra.decode_tokens_per_s, IsPresent(u.extra.decode_tokens_per_s))

\* the stats line shows a segment for every speed of u that is present and
\* not zero
ShowsNonZero(st, u) ==
  IsSummary(st.textContent,
            u.extra.prefill_tokens_per_s,
            IsPresentAndNonZero(u.extra.prefill_tokens_per_s),
            u.extra.decode_tokens_per_s,
            IsPresentAndNonZero(u.extra.decode_tokens_per_s))

\* C9 as stated: the stats line is written exactly when usage was recorded,
\* with one segment for every field that is present.
C9_SegmentPerPresentField ==
  [][\A i \in Runs :
       (Leaves(i, "finalizing") /\ pc'[i] = "succeeded") =>
         IF usage[i].present
         THEN ~stats'.hidden /\ ShowsPresent(stats', usage[i])
         ELSE stats' = stats]_vars

\* C9, amended: a run that gets its final message writes the stats line
\* exactly when usage was recorded, with one segment for every field that is
\* present and not zero; a run that fails leaves the stats line alone.
C9_SegmentPerNonZeroField ==
  [][/\ \A i \in Runs :
          (Leaves(i, "finalizing") /\ pc'[i] = "succeeded") =>
            IF usage[i].present
            THEN ~stats'.hidden /\ ShowsNonZero(stats', usage[i])
            ELSE stats' = stats
     /\ (\A i \in Runs : ~(Leaves(i, "finalizing") /\ pc'[i] = "succeeded"))
          => stats' = stats]_vars

C9_Witness ==
  \E i \in Runs :
    /\ pc[i] = "succeeded"
    /\ usage[i] = ZeroPrefill
    /\ stats = [textContent |-> <<[label |-> "Decode Speed", tenths |-> 57]>>,
                hidden |-> FALSE]

\* d is a record of the expected shape, as far as the preview reads it
WellFormed(d) ==
  /\ d.ok /\ ~d.isNull
  /\ d.priority.k = "str"
  /\ d.labels.k = "arr"
  /\ \A n \in 1..Len(d.labels.a) : d.labels.a[n].k = "str"
  /\ \/ d.assignees.k = "undefined"
     \/ /\ d.assignees.k = "arr"
        /\ \A n \in 1..Len(d.assignees.a) : d.assignees.a[n].k = "str"

\* C10: the preview gets one avatar per assignee, in order, showing the first
\* character in upper case; the "No assignees" placeholder alone exactly when
\* assignees is absent or empty; and one chip per label, in order.
C10_AvatarsAndChips ==
  [][\A i \in Runs :
       (Leaves(i, "finalizing") /\ pc'[i] = "succeeded"
        /\ WellFormed(JSONParse(finalMessage'[i]))) =>
         LET d == JSONParse(finalMessage'[i])
             names == d.assignees.a
             shown == preview'.assignees
         IN /\ IF d.assignees.k = "arr" /\ Len(names) > 0
               THEN /\ Len(shown) = Len(names)
                    /\ \A n \in 1..Len(names) :
                         /\ shown[n].tag = "div"
                         /\ shown[n].className = <<"assignee-avatar">>
                         /\ shown[n].textContent =
                              IF names[n].s = <<>> THEN <<>>
                              ELSE <<UpperChar(names[n].s[1])>>
                         /\ shown[n] # NoAssignees
               ELSE shown = <<NoAssignees>>
            /\ Len(preview'.labels) = Len(d.labels.a)
            /\ \A n \in 1..Len(d.labels.a) :
                 preview'.labels[n].textContent = d.labels.a[n].s]_vars

C10_Witness ==
  /\ \E i \in Runs : pc[i] = "succeeded" /\ finalMessage[i] = FullIssue
  /\ Len(preview.assignees) = 2
  /\ preview.assignees[1].textContent = <<"A">>
  /\ preview.assignees[2].textContent = <<"B">>
  /\ Len(preview.labels) = 2
  /\ preview.labels[1].textContent = <<"bug">>
  /\ preview.labels[2].textContent = <<"high-priority">>

\* C11: for a record of the expected shape the preview a run leaves does not
\* depend on the preview it found (the one of no record, of the same record
\* or of another one), and rendering the record once more changes nothing:
\* the label and assignee containers never accumulate.
C11_RenderIsIdempotent ==
  [][\A i \in Runs :
       (Leaves(i, "finalizing") /\ pc'[i] = "succeeded"
        /\ WellFormed(JSONParse(finalMessage'[i]))) =>
         LET d == JSONParse(finalMessage'[i])
         IN /\ preview' = updateIssuePreview(InitialPreview, d).preview
            /\ updateIssuePreview(preview', d).preview = preview'
            /\ updateIssuePreview(preview', d).threw = FALSE]_vars

\* the second run rendered the full record over what the first run rendered
C11_Witness ==
  /\ pc[1] = "succeeded"
  /\ pc[2] = "succeeded"
  /\ finalMessage[2] = FullIssue
  /\ preview = updateIssuePreview(InitialPreview, JSONParse(FullIssue)).preview
  /\ Len(preview.labels) = 2
  /\ Len(preview.assignees) = 2

\* id begins with the characters SmolLM2
HasPrefix(id) == Len(id) >= 2 /\ id[1] = "Smol" /\ id[2] = "LM2"

\* the positions of the catalog whose id has the prefix
Matching == {n \in 1..Len(model_list) : HasPrefix(model_list[n])}

\* the k-th of them
NthMatching(k) ==
  CHOOSE n \in Matching : Cardinality({m \in Matching : m < n}) = k - 1

\* C12: the selectable models are exactly the ids of the catalog that start
\* with SmolLM2, in catalog order and as often as the catalog has them; the
\* selection is the first of them until a change event, undefined when there
\* is none, and never an id without the prefix.
C12_SelectableAreThePrefixed ==
  /\ Len(availableModels) = Cardinality(Matching)
  /\ \A k \in 1..Len(availableModels) :
       availableModels[k] = model_list[NthMatching(k)]
  /\ selections = 0 =>
       selectedModel = IF Matching = {} THEN NoModel
                       ELSE model_list[NthMatching(1)]
  /\ selectedModel # NoModel => HasPrefix(selectedModel)

\* a catalog with an id without the prefix before two with it, and the
\* second of these chosen in the dropdown
C12_Witness ==
  /\ Len(model_list) = 3
  /\ ~HasPrefix(model_list[1])
  /\ availableModels = <<model_list[2], model_list[3]>>
  /\ selections = 1
  /\ selectedModel = model_list[3]
  /\ selectedModel # model_list[2]

RECURSIVE Concatenation(_)
\* the texts of a sequence one after the other
Concatenation(texts) ==
  IF Len(texts) = 0 THEN <<>>
  ELSE Concatenation(SubSeq(texts, 1, Len(texts) - 1)) \o texts[Len(texts)]

\* C13: while a run streams, after its k-th chunk the output area shows the
\* deltas of chunks 1..k one after the other in the order they arrived, a
\* chunk without delta adding nothing.
C13_PartialTextIsDeltasInOrder ==
  \A i \in Runs :
    (pc[i] = "streaming" /\ chunks[i] >= 1) =>
      /\ Len(delivered[i]) = chunks[i]
      /\ curMessage[i] = Concatenation(delivered[i])
      /\ outputDiv = PartialText(Concatenation(delivered[i]))

\* two text chunks have arrived, the later text first in the record
C13_Witness ==
  \E i \in Runs :
    /\ pc[i] = "streaming"
    /\ delivered[i] = <<SecondHalf, FirstHalf>>
    /\ outputDiv = PartialText(SecondHalf \o FirstHalf)

\* the runs waiting for CreateMLCEngine
Acquiring == {i \in Runs : pc[i] = "acquiring"}

\* the sessions that are stored or that a run in flight has called
LiveSessions ==
  ({engine} \cup {session[i] : i \in {j \in Runs : ~Ended(j)}}) \ {NoEngine}

\* C14: at most one run waits for CreateMLCEngine and at most one session is
\* live, also when the user clicks again during an acquisition.
C14_OneAcquisitionOneSession ==
  /\ Cardinality(Acquiring) <= 1
  /\ Cardinality(LiveSessions) <= 1

\* C15: with one run at a time, a run that follows a run which had a session,
\* with no change event since that run's click, calls no CreateMLCEngine and
\* generates on the same session; a run that follows a change event or a
\* failed acquisition acquires anew, and no other run after the first does.
C15_ReuseUntilSelectionChanges ==
  [][\A i \in Runs :
       (i > 1 /\ Leaves(i, "idle")) =>
         /\ (~changed /\ session[i - 1] # NoEngine) =>
              /\ pc'[i] # "acquiring"
              /\ created'[i] = NoModel
              /\ session'[i] \in {NoEngine, session[i - 1]}
         /\ (changed \/ AcquisitionFailed(i - 1)) => pc'[i] = "acquiring"
         /\ pc'[i] = "acquiring" => (changed \/ AcquisitionFailed(i - 1))]_vars

\* run i has been started and has not settled
InFlight(i) == pc[i] \notin {"idle", "succeeded", "failed"}

\* C16: a step of one run, its click included, leaves every other run in
\* flight where it is and with its locals, so the earlier run goes on to its
\* own end and to its own writes of the output area (the state of the
\* witness: the earlier run's final output over the later run's).
C16_LaterRunCancelsNothing ==
  [][\A i \in Runs :
       (InFlight(i) /\ \E j \in Runs \ {i} : pc'[j] # pc[j]) =>
         /\ pc'[i] = pc[i]
         /\ created'[i] = created[i]
         /\ session'[i] = session[i]
         /\ curMessage'[i] = curMessage[i]
         /\ chunks'[i] = chunks[i]
         /\ finalOn'[i] = finalOn[i]]_vars

\* both runs have ended, the run clicked second first: the output area holds
\* the final message of the first run, written over that of the second
C16_Witness ==
  /\ pc[1] = "succeeded"
  /\ pc[2] = "succeeded"
  /\ finalMessage[1] = FullIssue
  /\ finalMessage[2] = CutIssue
  /\ outputDiv = Highlighted(highlight(FullIssue))

\* the steps of Settled are the steps of Responds
SettledIsResponds ==
  [][\A i \in Runs : Settled(i) <=> Responds(i)]_vars

\* C17: when the engine settles every await, a run that has started ends as
\* succeeded or failed, and a run that has ended stays as it ended.
C17_EveryRunEnds ==
  /\ \A i \in Runs : [](InFlight(i) => <>Ended(i))
  /\ [][\A i \in Runs : Ended(i) => pc'[i] = pc[i]]_vars

\* a run ended with its final message and the run after it ended in its
\* catch block, in the middle of its stream
C17_Witness ==
  /\ pc[1] = "succeeded"
  /\ pc[2] = "failed"
  /\ chunks[2] >= 1
  /\ error[2] \in EngineErrors

\* C18: a run calls getMessage on the session it called chatCompletion on,
\* and never fails for finding no session to call getMessage on.
C18_FinalMessageFromOwnSession ==
  \A i \in Runs :
    /\ finalOn[i] # NoEngine => finalOn[i] = session[i]
    /\ pc[i] = "failed" => error[i] # NullEngineText

\* C19: when a run ends, the stats line shows the speeds of that run if it
\* succeeded with usage recorded, and is not displayed if the run recorded no
\* usage or failed.
C19_StatsAreOfTheLatestRun ==
  [][\A i \in Runs :
       (InFlight(i) /\ pc'[i] \in {"succeeded", "failed"}) =>
         IF pc'[i] = "succeeded" /\ usage[i].present
         THEN ~stats'.hidden /\ ShowsNonZero(stats', usage[i])
         ELSE stats'.hidden]_vars

=============================================================================
